---- MODULE Spec2Model ----
(***************************************************************************)
(* Model of fett-helmet-pi (src/main.rs): the image pipeline of HelmetMcu  *)
(* (send_rotated -> Rot90 -> send_raw -> serial port) and the networked    *)
(* mode (warp handlers, rendezvous channel, update handler thread).        *)
(***************************************************************************)
EXTENDS Integers, Sequences, FiniteSets, TLC

VARIABLES
    pc,       \* position of the thread running send_rotated / send_raw
    dims,     \* HelmetMcu.dims = <<w, h>>
    orig,     \* the Vec<u8> handed to send_rotated: [len, pat]; orig[i] = Pixel(pat, i)
    rot,      \* the Rot90 iterator: [w, h, x, y]
    emitted,  \* history: source index of every sample Rot90::next has returned
    sr,       \* locals of send_raw
    serial,   \* history: what was done to self.serial (and the pacing sleeps), in order
    hpc,      \* position of every POST /coords handler task
    hreq,     \* the request (number) each handler task is serving
    wpc,      \* position of the update handler thread
    wreq,     \* the request the update handler thread is working on
    pending,  \* history: requests whose channel send has completed and whose work has not ended
    nposts,   \* number of POST /coords requests accepted so far
    png,      \* what read_png returned in send_png_g: [len, pat], len = -1 before the call
    loadst,   \* what load_map returned for wreq: "none" (not returned yet), "ok" or "failed"
    clock,    \* touhou_mode: start.elapsed().as_millis()
    last_frame_sent,
    frame,    \* touhou_mode: the frame computed in the current pass of the loop
    tpc,      \* touhou_mode: position in the loop
    sent      \* history: the frame numbers passed to send_png_g, in order

sendVars == <<pc, dims, orig, rot, emitted, sr, serial, png>>
netVars  == <<hpc, hreq, wpc, wreq, pending, nposts, loadst>>
touhouVars == <<clock, last_frame_sent, frame, tpc, sent>>
vars     == <<pc, dims, orig, rot, emitted, sr, serial, hpc, hreq, wpc, wreq, pending, nposts,
              png, loadst, clock, last_frame_sent, frame, tpc, sent>>

----------------------------------------------------------------------------
(* Bounds of the model *)

MaxDim == 9          \* widths and heights 0..MaxDim are explored besides the session's 64
MaxPattern == 3      \* buffer contents: patterns 0..MaxPattern
NumHandlers == 3     \* concurrent POST /coords handler tasks
MaxPosts == 4        \* POST /coords requests accepted in one behaviour
MaxClock == 4000     \* touhou_mode is followed for this many milliseconds
TickMillis == 125    \* the clock is observed in steps of this many milliseconds

(* Program constants *)

DIM == 64                      \* dims: (64, 64)
RESET_LEN == 11                \* RESET_SEQ: [u8; 11]
RESET_BYTE == 35               \* b'#'
ROWS_BETWEEN_SLEEPS == 2
U8_MAX == 255
INVERT_IMAGE == FALSE

DimSet == (0 .. MaxDim) \cup {DIM}

----------------------------------------------------------------------------
(* The sample buffer.  A Vec<u8> of length orig.len whose i-th element     *)
(* (0-based) is Pixel(orig.pat, i).                                        *)

Levels == <<0, 127, 128, 255>>

\* two-dimensional checkerboards of 0 and 255 on rows of DIM samples, numbered
\* after the patterns 0..MaxPattern
CHECKER_0 == MaxPattern + 1     \* sample (0, 0) is 0
CHECKER_255 == MaxPattern + 2   \* sample (0, 0) is 255
Checkers == {CHECKER_0, CHECKER_255}

Pixel(p, i) ==
    IF p = CHECKER_0 THEN (IF ((i \div DIM) + (i % DIM)) % 2 = 0 THEN 0 ELSE 255)
    ELSE IF p = CHECKER_255 THEN (IF ((i \div DIM) + (i % DIM)) % 2 = 0 THEN 255 ELSE 0)
    ELSE IF p = 0 THEN (IF i % 2 = 0 THEN 0 ELSE 255)
    ELSE Levels[(((i \div p) + (p * i)) % 4) + 1]

Pow2(n) == IF n = 0 THEN 1 ELSE IF n = 1 THEN 2 ELSE IF n = 2 THEN 4
           ELSE IF n = 3 THEN 8 ELSE IF n = 4 THEN 16 ELSE IF n = 5 THEN 32
           ELSE IF n = 6 THEN 64 ELSE 128

\* read_png_1bit: buf[(i * 8) + j] = 0xFF where (raw_buf[i] & (1 << j)) > 0,
\* raw_buf[i] being Pixel(p, i)
Expand1bit(p, k) == IF (Pixel(p, k \div 8) \div Pow2(k % 8)) % 2 = 1 THEN 255 ELSE 0

\* o[index] for a buffer o = [len, pat, bits]
OrigAt(o, index) == IF o.bits THEN Expand1bit(o.pat, index) ELSE Pixel(o.pat, index)

NoPng == [len |-> -1, pat |-> 0]

\* no buffer has been handed to send_rotated yet
NoBuf == [len |-> -1, pat |-> 0, bits |-> FALSE]

----------------------------------------------------------------------------
(* Rot90 *)

None == [some |-> FALSE, index |-> -1, val |-> 0]
Some(index, v) == [some |-> TRUE, index |-> index, val |-> v]

\* mutant: no length check
Rot90_new_unchecked(len, d) == TRUE

\* assert!(orig.len() == (w * h))
Rot90_new_assert(len, d) == len = d[1] * d[2]

Rot90_new(d) == [w |-> d[1], h |-> d[2], x |-> 0, y |-> 0]

\* index is a usize: where yt has wrapped below zero (see internal_peek) and
\* (yt * w) + xt is negative, the wrapped index is 2^64 + index >= orig.len
at_pre(r, xt, yt) ==
    LET index == (yt * r.w) + xt
    IN  IF index < 0 \/ index >= orig.len THEN None ELSE Some(index, OrigAt(orig, index))

\* self.w - self.x - 1 on usize is below zero when x >= w: a panic where
\* overflow checks are on, a wrapped value (2^64 + yt) where they are off
internal_peek_underflows(r) == r.w - r.x - 1 < 0

\* mutant: the row is not mirrored
internal_peek_no_flip(r) ==
    LET xt == r.y
        yt == r.x
    IN  at_pre(r, xt, yt)

internal_peek(r) ==
    LET xt == r.y
        yt == r.w - r.x - 1
    IN  at_pre(r, xt, yt)

\* the iterator after next() has returned Some
Rot90_advance(r) ==
    IF r.x + 1 >= r.h THEN [r EXCEPT !.x = 0, !.y = r.y + 1]
    ELSE [r EXCEPT !.x = r.x + 1]

----------------------------------------------------------------------------
(* send_raw *)

Wr(kind, b) == [op |-> kind, byte |-> b]   \* write_all: kind is "reset", "data" or "pad"
Flush == [op |-> "flush", byte |-> 0]
Sleep == [op |-> "sleep", byte |-> 0]

IsWrite(e) == e.op \in {"reset", "data", "pad"}
IsIo(e) == e.op # "sleep"

\* mutant: the row counter starts at 0
SrInit_row_0 == [rows_since_sleep |-> ROWS_BETWEEN_SLEEPS, index_within_row |-> 0,
                 byte |-> 0, index_within_byte |-> 0]

\* mutant: the sleep counter starts at 0
SrInit_sleep_0 == [rows_since_sleep |-> 0, index_within_row |-> -1,
                   byte |-> 0, index_within_byte |-> 0]

SrInit == [rows_since_sleep |-> ROWS_BETWEEN_SLEEPS, index_within_row |-> -1,
           byte |-> 0, index_within_byte |-> 0]

\* mutant: the bit is set for the dark samples
Threshold_inverted(i) == (i <= (U8_MAX \div 2)) # INVERT_IMAGE

\* (i > (u8::MAX / 2)) ^ INVERT_IMAGE
Threshold(i) == (i > (U8_MAX \div 2)) # INVERT_IMAGE

\* mutant: most significant bit first
SetBit_msb_first(byte, n) ==
    IF (byte \div Pow2(7 - n)) % 2 = 1 THEN byte ELSE (byte + Pow2(7 - n)) % 256

\* byte |= 1 << index_within_byte
SetBit(byte, n) == IF (byte \div Pow2(n)) % 2 = 1 THEN byte ELSE (byte + Pow2(n)) % 256

\* One iteration of `for i in data`: the locals after it and what it did, in order.
LoopBody(s, i) ==
    LET byte1 == IF Threshold(i) THEN SetBit(s.byte, s.index_within_byte) ELSE s.byte
        iwb1  == s.index_within_byte + 1
        full  == iwb1 >= 8
        iwr1  == IF full THEN s.index_within_row + 1 ELSE s.index_within_row
        rowend == full /\ iwr1 >= 8
        sleeps == rowend /\ s.rows_since_sleep >= ROWS_BETWEEN_SLEEPS
        iwr2  == IF rowend THEN -1 ELSE iwr1
        ev1   == IF full THEN <<Wr("data", byte1)>> ELSE <<>>
        ev2   == IF rowend THEN <<Flush>> ELSE <<>>
        ev3   == IF sleeps THEN <<Sleep>> ELSE <<>>
        ev4   == IF iwr2 = -1 THEN <<Wr("pad", 0)>> ELSE <<>>
    IN  [locals |-> [rows_since_sleep |-> IF rowend
                                           THEN (IF sleeps THEN 0 ELSE s.rows_since_sleep + 1)
                                           ELSE s.rows_since_sleep,
                     index_within_row |-> IF iwr2 = -1 THEN 0 ELSE iwr2,
                     byte |-> IF full THEN 0 ELSE byte1,
                     index_within_byte |-> IF full THEN 0 ELSE iwb1],
         events |-> ev1 \o ev2 \o ev3 \o ev4]

ResetSeq(n) == [k \in 1 .. n |-> Wr("reset", RESET_BYTE)]

----------------------------------------------------------------------------
(* Actions of the pipeline *)

Patterns == (0 .. MaxPattern) \cup Checkers

BufLens(d) == {n \in {d[1] * d[2], d[1] * d[2] + 1, d[1] * d[2] - 1, (d[1] * d[2]) \div 8} : n >= 0}

\* self.send_raw(Rot90::new(data, self.dims)): Rot90::new runs before send_raw
\* is entered
send_rotated_call(data) ==
    /\ orig' = data
    /\ IF Rot90_new_assert(data.len, dims)
       THEN /\ rot' = Rot90_new(dims)
            /\ pc' = "send_raw"
       ELSE /\ rot' = rot
            /\ pc' = "panic"

\* send_rotated(data)
send_rotated ==
    /\ pc = "idle"
    /\ \E len \in BufLens(dims), pat \in Patterns :
          send_rotated_call([len |-> len, pat |-> pat, bits |-> FALSE])
    /\ UNCHANGED <<dims, emitted, sr, serial>>
    /\ UNCHANGED <<png, netVars, touhouVars>>

PNG_G_LEN == 64 * 64     \* data.len() != (64 * 64)

\* the lengths read_png returns for the files tried
PngLens == {PNG_G_LEN, PNG_G_LEN \div 8, PNG_G_LEN - 1, (PNG_G_LEN \div 8) + 1, 0}

\* mutant: no assertion before the 1-bit decode
send_png_g_unchecked(len) == TRUE

\* assert!(data.len() == (64 * 64 / 8))
send_png_g_assert(len) == len = PNG_G_LEN \div 8

\* send_png_g(filename): read_png returned a buffer of len bytes.  Not 64 * 64
\* bytes: assert, then send_png_1bit reads the file again through
\* read_png_1bit, 8 samples for each of its bytes
send_png_g ==
    /\ pc = "idle"
    /\ \E len \in PngLens, pat \in Patterns :
          /\ png' = [len |-> len, pat |-> pat]
          /\ IF len # PNG_G_LEN
             THEN IF send_png_g_assert(len)
                  THEN send_rotated_call([len |-> len * 8, pat |-> pat, bits |-> TRUE])
                  ELSE /\ pc' = "panic"
                       /\ UNCHANGED <<orig, rot>>
             ELSE send_rotated_call([len |-> len, pat |-> pat, bits |-> FALSE])
    /\ UNCHANGED <<dims, emitted, sr, serial>>
    /\ UNCHANGED <<netVars, touhouVars>>

\* send_png_g(filename): File::open or read_png returned Err
send_png_g_err ==
    /\ pc = "idle"
    /\ pc' = "err"
    /\ UNCHANGED <<dims, orig, rot, emitted, sr, serial>>
    /\ UNCHANGED <<png, netVars, touhouVars>>

\* write_all(&RESET_SEQ)?; flush()?; let mut ...
send_raw_reset ==
    /\ pc = "send_raw"
    /\ serial' = serial \o ResetSeq(RESET_LEN) \o <<Flush>>
    /\ sr' = SrInit
    /\ pc' = "loop"
    /\ UNCHANGED <<dims, orig, rot, emitted>>
    /\ UNCHANGED <<png, netVars, touhouVars>>

\* write_all wrote k < 11 bytes and failed, or the flush failed
send_raw_reset_err ==
    /\ pc = "send_raw"
    /\ \E k \in 0 .. RESET_LEN : serial' = serial \o ResetSeq(k)
    /\ pc' = "err"
    /\ UNCHANGED <<dims, orig, rot, emitted, sr>>
    /\ UNCHANGED <<png, netVars, touhouVars>>

\* data.next() returned Some(i) and the loop body ran without an I/O error
send_raw_iter ==
    /\ pc = "loop"
    /\ internal_peek(rot).some
    /\ LET item == internal_peek(rot)
           body == LoopBody(sr, item.val)
       IN  /\ rot' = Rot90_advance(rot)
           /\ emitted' = Append(emitted, item.index)
           /\ sr' = body.locals
           /\ serial' = serial \o body.events
    /\ UNCHANGED <<pc, dims, orig>>
    /\ UNCHANGED <<png, netVars, touhouVars>>

\* data.next() returned Some(i) and the k-th I/O operation of the body failed
send_raw_iter_err ==
    /\ pc = "loop"
    /\ internal_peek(rot).some
    /\ LET item == internal_peek(rot)
           body == LoopBody(sr, item.val)
       IN  /\ \E k \in 1 .. Len(body.events) :
                 /\ IsIo(body.events[k])
                 /\ serial' = serial \o SubSeq(body.events, 1, k - 1)
           /\ rot' = Rot90_advance(rot)
           /\ emitted' = Append(emitted, item.index)
    /\ pc' = "err"
    /\ UNCHANGED <<dims, orig, sr>>
    /\ UNCHANGED <<png, netVars, touhouVars>>

\* mutant: no flush after the loop
send_raw_finish_no_flush ==
    /\ pc = "loop"
    /\ ~internal_peek(rot).some
    /\ pc' = "done"
    /\ UNCHANGED <<dims, orig, rot, emitted, sr, serial>>
    /\ UNCHANGED <<png, netVars, touhouVars>>

\* mutant: the bits of an incomplete group are written before the flush
send_raw_finish_writes_partial ==
    /\ pc = "loop"
    /\ ~internal_peek(rot).some
    /\ serial' = serial
                  \o (IF sr.index_within_byte > 0 THEN <<Wr("data", sr.byte)>> ELSE <<>>)
                  \o <<Flush>>
    /\ pc' = "done"
    /\ UNCHANGED <<dims, orig, rot, emitted, sr>>
    /\ UNCHANGED <<png, netVars, touhouVars>>

\* data.next() returned None: final flush, Ok(())
send_raw_finish ==
    /\ pc = "loop"
    /\ ~internal_peek(rot).some
    /\ serial' = Append(serial, Flush)
    /\ pc' = "done"
    /\ UNCHANGED <<dims, orig, rot, emitted, sr>>
    /\ UNCHANGED <<png, netVars, touhouVars>>

\* data.next() returned None and the final flush failed
send_raw_finish_err ==
    /\ pc = "loop"
    /\ ~internal_peek(rot).some
    /\ pc' = "err"
    /\ UNCHANGED <<dims, orig, rot, emitted, sr, serial>>
    /\ UNCHANGED <<png, netVars, touhouVars>>

\* self.w - self.x - 1 overflows with overflow checks on: next() panics
Rot90_next_panic ==
    /\ pc = "loop"
    /\ internal_peek_underflows(rot)
    /\ pc' = "panic"
    /\ UNCHANGED <<dims, orig, rot, emitted, sr, serial>>
    /\ UNCHANGED <<png, netVars, touhouVars>>

----------------------------------------------------------------------------
(* normal_mode: POST /coords handler tasks, UP_CHAN, update handler thread *)

Handlers == 1 .. NumHandlers
Busy == {"load_map", "send_map"}
Dead == {"load_map_failed", "send_map_failed"}   \* the update handler thread has ended

\* mutant: a channel with room for a message
UP_CHAN_buffers == TRUE

\* bounded(0): a send completes only while the receiver is blocked in recv
UP_CHAN_send_completes == wpc = "recv"

\* a POST /coords request arrives; its task reaches UP_TX.send(coords)
post(h) ==
    /\ hpc[h] = "idle"
    /\ nposts < MaxPosts
    /\ nposts' = nposts + 1
    /\ hreq' = [hreq EXCEPT ![h] = nposts + 1]
    /\ hpc' = [hpc EXCEPT ![h] = "send"]
    /\ UNCHANGED <<wpc, wreq, pending, loadst>>
    /\ UNCHANGED <<sendVars, touhouVars>>

\* UP_TX.send(coords) returns: the update handler thread's `for coords in *UP_RX`
\* takes the message in the same step
rendezvous(h) ==
    /\ hpc[h] = "send"
    /\ UP_CHAN_send_completes
    /\ hpc' = [hpc EXCEPT ![h] = "reply"]
    /\ pending' = pending \cup {hreq[h]}
    /\ IF wpc = "recv"
       THEN /\ wpc' = "load_map"
            /\ wreq' = hreq[h]
            /\ loadst' = "none"
       ELSE UNCHANGED <<wpc, wreq, loadst>>
    /\ UNCHANGED <<hreq, nposts>>
    /\ UNCHANGED <<sendVars, touhouVars>>

\* mutant: the reply is held back until the request's work has ended
reply_after_work(h) ==
    /\ hpc[h] = "reply"
    /\ hreq[h] \notin pending
    /\ hpc' = [hpc EXCEPT ![h] = "idle"]
    /\ UNCHANGED <<hreq, wpc, wreq, pending, nposts, loadst>>
    /\ UNCHANGED <<sendVars, touhouVars>>

\* the async block returns "ok"
reply(h) ==
    /\ hpc[h] = "reply"
    /\ hpc' = [hpc EXCEPT ![h] = "idle"]
    /\ UNCHANGED <<hreq, wpc, wreq, pending, nposts, loadst>>
    /\ UNCHANGED <<sendVars, touhouVars>>

\* load_map(coords)? returned Ok
load_map_ok ==
    /\ wpc = "load_map"
    /\ wpc' = "send_map"
    /\ loadst' = "ok"
    /\ UNCHANGED <<hpc, hreq, wreq, pending, nposts>>
    /\ UNCHANGED <<sendVars, touhouVars>>

\* mutant: the result of load_map is dropped
load_map_err_ignored ==
    /\ wpc = "load_map"
    /\ wpc' = "send_map"
    /\ loadst' = "failed"
    /\ UNCHANGED <<hpc, hreq, wreq, pending, nposts>>
    /\ UNCHANGED <<sendVars, touhouVars>>

\* load_map(coords)? returned Err: the closure returns, join().unwrap().unwrap()
\* panics the spawning thread
load_map_err ==
    /\ wpc = "load_map"
    /\ wpc' = "load_map_failed"
    /\ loadst' = "failed"
    /\ pending' = pending \ {wreq}
    /\ UNCHANGED <<hpc, hreq, wreq, nposts>>
    /\ UNCHANGED <<sendVars, touhouVars>>

\* mcu.send_map()? returned Ok: back to the head of the for loop.  The frame
\* send_raw wrote for the request (the steps of Spec) is one entry of the history.
send_map_ok ==
    /\ wpc = "send_map"
    /\ wpc' = "recv"
    /\ pending' = pending \ {wreq}
    /\ serial' = Append(serial, Wr("frame", wreq))
    /\ UNCHANGED <<hpc, hreq, wreq, nposts, loadst>>
    /\ UNCHANGED <<pc, dims, orig, rot, emitted, sr, png>>
    /\ UNCHANGED touhouVars

\* mcu.send_map()? returned Err or panicked, before the first byte (File::open,
\* read_png, Rot90::new) or with a part of the frame written
send_map_err ==
    /\ wpc = "send_map"
    /\ wpc' = "send_map_failed"
    /\ pending' = pending \ {wreq}
    /\ \/ serial' = serial
       \/ serial' = Append(serial, Wr("partial", wreq))
    /\ UNCHANGED <<hpc, hreq, wreq, nposts, loadst>>
    /\ UNCHANGED <<pc, dims, orig, rot, emitted, sr, png>>
    /\ UNCHANGED touhouVars

----------------------------------------------------------------------------
(* touhou_mode *)

FRAME_MILLIS == 500

\* (time / 500) + 1
touhou_frame(time) == (time \div FRAME_MILLIS) + 1

\* mutant: every pass of the loop sends
touhou_always_sends(f, last) == TRUE

\* if frame != last_frame_sent
touhou_should_send(f, last) == f # last

\* the monotonic clock (Instant) advances
tick ==
    /\ tpc # "failed"
    /\ clock + TickMillis <= MaxClock
    /\ clock' = clock + TickMillis
    /\ UNCHANGED <<last_frame_sent, frame, tpc, sent>>
    /\ UNCHANGED <<sendVars, netVars>>

\* one pass of the loop up to the call of send_png_g
touhou_pass ==
    /\ tpc = "loop"
    /\ frame' = touhou_frame(clock)
    /\ IF touhou_should_send(frame', last_frame_sent)
       THEN /\ tpc' = "sending"
            /\ sent' = Append(sent, frame')
       ELSE UNCHANGED <<tpc, sent>>
    /\ UNCHANGED <<clock, last_frame_sent>>
    /\ UNCHANGED <<sendVars, netVars>>

\* mcu.send_png_g(filename)? returned Ok; last_frame_sent = frame
touhou_send_ok ==
    /\ tpc = "sending"
    /\ last_frame_sent' = frame
    /\ tpc' = "loop"
    /\ UNCHANGED <<clock, frame, sent>>
    /\ UNCHANGED <<sendVars, netVars>>

\* mcu.send_png_g(filename)? returned Err (or panicked): touhou_mode returns
touhou_send_err ==
    /\ tpc = "sending"
    /\ tpc' = "failed"
    /\ UNCHANGED <<clock, last_frame_sent, frame, sent>>
    /\ UNCHANGED <<sendVars, netVars>>

NetIdle ==
    /\ hpc = [h \in 1 .. NumHandlers |-> "idle"]
    /\ hreq = [h \in 1 .. NumHandlers |-> 0]
    /\ wpc = "recv"
    /\ wreq = 0
    /\ pending = {}
    /\ nposts = 0
    /\ loadst = "none"

TouhouIdle ==
    /\ clock = 0
    /\ last_frame_sent = -1
    /\ frame = 0
    /\ tpc = "loop"
    /\ sent = <<>>

SendIdle ==
    /\ pc = "idle"
    /\ png = NoPng
    /\ orig = NoBuf
    /\ rot = [w |-> 0, h |-> 0, x |-> 0, y |-> 0]
    /\ emitted = <<>>
    /\ sr = SrInit
    /\ serial = <<>>

Init ==
    /\ SendIdle
    /\ dims \in DimSet \X DimSet
    /\ NetIdle
    /\ TouhouIdle

Next ==
    \/ send_rotated
    \/ send_png_g
    \/ send_png_g_err
    \/ send_raw_reset
    \/ send_raw_reset_err
    \/ send_raw_iter
    \/ send_raw_iter_err
    \/ send_raw_finish
    \/ send_raw_finish_err
    \/ Rot90_next_panic

Spec == Init /\ [][Next]_vars

\* normal_mode: HelmetMcu::new has set dims to (64, 64)
NetInit ==
    /\ SendIdle
    /\ dims = <<DIM, DIM>>
    /\ NetIdle
    /\ TouhouIdle

NetNext ==
    \/ \E h \in Handlers : post(h)
    \/ \E h \in Handlers : rendezvous(h)
    \/ \E h \in Handlers : reply(h)
    \/ load_map_ok
    \/ load_map_err
    \/ send_map_ok
    \/ send_map_err

NetSpec == NetInit /\ [][NetNext]_vars

\* touhou_mode: the same start as normal_mode
TouhouNext ==
    \/ tick
    \/ touhou_pass
    \/ touhou_send_ok
    \/ touhou_send_err

TouhouSpec == NetInit /\ [][TouhouNext]_vars

----------------------------------------------------------------------------
(* What the serial history says *)

Bytes == SelectSeq(serial, IsWrite)                       \* every byte written, in order
AfterReset == SubSeq(Bytes, RESET_LEN + 1, Len(Bytes))    \* the bytes after the preamble
IsData(e) == e.op = "data"
DataBytes == SelectSeq(serial, IsData)
CountOp(kind, n) == Cardinality({j \in 1 .. n : serial[j].op = kind})

\* Where a history is checked element by element: all of it (from 1) once the
\* call has returned or panicked, its newest element (n) after every step before.
Checked(n) == IF pc \in {"done", "panic"} \/ n = 0 THEN 1 ELSE n

\* the j-th bit (0-based) of the k-th group (1-based) of 8 samples handed to send_raw
GroupBit(k, j) ==
    IF (OrigAt(orig, emitted[8 * (k - 1) + j + 1]) > 127) # INVERT_IMAGE THEN 1 ELSE 0

----------------------------------------------------------------------------
(* Claims *)

\* C1: a successful send_raw over n samples, n a multiple of 64, writes the
\* 11 preamble bytes and then exactly 9 * (n / 64) bytes.
C1_FramingLength ==
    (pc = "done" /\ Len(emitted) % 64 = 0)
        => /\ Len(Bytes) = RESET_LEN + 9 * (Len(emitted) \div 64)
           /\ \A i \in 1 .. RESET_LEN : Bytes[i].op = "reset"

\* C2: after a successful send_raw the bytes after the preamble are row
\* units of 8 data bytes followed by one pad byte of value 0, the first byte
\* after the preamble being a data byte.
C2_DataThenPad ==
    pc = "done"
        => \A i \in 1 .. Len(AfterReset) :
              /\ AfterReset[i].op = (IF i % 9 = 0 THEN "pad" ELSE "data")
              /\ (i % 9 = 0 => AfterReset[i].byte = 0)

\* C3: every pacing sleep comes when exactly ROWS_BETWEEN_SLEEPS more rows
\* are complete than at the sleep before it (or at the start), and never
\* inside a row unit.
C3_SleepEveryTwoRows ==
    \A i \in 1 .. Len(serial) :
        serial[i].op = "sleep"
            => /\ CountOp("data", i) = 8 * ROWS_BETWEEN_SLEEPS * CountOp("sleep", i)
               /\ CountOp("pad", i) * 8 = CountOp("data", i)

\* C6: a buffer whose length is not width * height makes send_rotated fail
\* in Rot90::new with nothing written to the serial connection.
C6_MismatchWritesNothing ==
    (orig # NoBuf /\ orig.len # dims[1] * dims[2]) => (pc = "panic" /\ serial = <<>>)

C6_Witness ==
    /\ pc = "panic"
    /\ dims = <<DIM, DIM>>
    /\ orig.len = DIM * DIM - 1
    /\ serial = <<>>

\* C7: the k-th sample Rot90 emits, k = x + y * height, is the source sample
\* at index (width - x - 1) * width + y.
C7_EmissionOrder ==
    \A k \in Checked(Len(emitted)) - 1 .. Len(emitted) - 1 :
        LET x == k % rot.h
            y == k \div rot.h
        IN  emitted[k + 1] = (rot.w - x - 1) * rot.w + y

\* a whole 8x8 buffer has been emitted, from the last row's first sample
\* (index 56) to the first row's last (index 7)
C7_Witness ==
    /\ pc = "done"
    /\ dims = <<8, 8>>
    /\ Len(emitted) = 64
    /\ emitted[1] = 56
    /\ emitted[64] = 7

\* C8: once the iterator has ended, every source index of the buffer has
\* been visited exactly once.
C8_Bijection ==
    pc = "done"
        => \A index \in 0 .. orig.len - 1 :
              Cardinality({k \in 1 .. Len(emitted) : emitted[k] = index}) = 1

\* C9: for a buffer of length width * height the iterator yields exactly
\* width * height samples and then returns None.
C9_YieldsAll ==
    pc = "done" => Len(emitted) = rot.w * rot.h

\* C10: the k-th data byte written is b0 + 2*b1 + ... + 128*b7 over the bits
\* of the k-th group of 8 consecutive samples, and a data byte is written
\* for every complete group.
C10_PackingLaw ==
    /\ Len(DataBytes) <= Len(emitted) \div 8
    /\ pc \in {"loop", "done"} => Len(DataBytes) = Len(emitted) \div 8
    /\ \A k \in Checked(Len(DataBytes)) .. Len(DataBytes) :
          DataBytes[k].byte =
              GroupBit(k, 0) + 2 * GroupBit(k, 1) + 4 * GroupBit(k, 2) + 8 * GroupBit(k, 3)
              + 16 * GroupBit(k, 4) + 32 * GroupBit(k, 5) + 64 * GroupBit(k, 6)
              + 128 * GroupBit(k, 7)

\* a whole row of 8 data bytes has been sent, the first of them 0x49 (bits
\* 1,0,0,1,0,0,1,0 in emission order; 0x92 if packed the other way round)
C10_Witness ==
    /\ pc = "done"
    /\ Len(DataBytes) = 8
    /\ DataBytes[1].byte = 73
    /\ \A j \in 0 .. 7 : GroupBit(1, j) = (IF j % 3 = 0 THEN 1 ELSE 0)

\* C11: with the session's dimensions, send_png_g sends a grayscale decode of
\* width * height bytes as it is, sends the 1-bit decode for a grayscale
\* decode of width * height / 8 bytes, and for any other length fails in its
\* assertion with no buffer handed on and nothing written.
C11_DecodeDispatch ==
    (dims = <<DIM, DIM>> /\ png.len >= 0)
        => /\ png.len = dims[1] * dims[2]
                => /\ orig = [len |-> png.len, pat |-> png.pat, bits |-> FALSE]
                   /\ pc # "panic"
           /\ png.len = (dims[1] * dims[2]) \div 8
                => /\ orig = [len |-> dims[1] * dims[2], pat |-> png.pat, bits |-> TRUE]
                   /\ pc # "panic"
           /\ png.len \notin {dims[1] * dims[2], (dims[1] * dims[2]) \div 8}
                => /\ pc = "panic"
                   /\ orig = NoBuf
                   /\ serial = <<>>

C11_Witness ==
    /\ dims = <<DIM, DIM>>
    /\ png.len = DIM * DIM - 1
    /\ pc = "panic"
    /\ serial = <<>>

\* the flushes of completed rows: every flush but the one after the preamble
\* and the one that ends a successful call
RowFlushes == CountOp("flush", Len(serial)) - 1 - (IF pc = "done" THEN 1 ELSE 0)
Sleeps == CountOp("sleep", Len(serial))
Pads == CountOp("pad", Len(serial))

\* Where a history is checked entry by entry: all of it once the call has
\* returned or panicked, before that the entries one loop iteration can add.
Recent(n) == IF pc \in {"done", "panic"} \/ n <= 4 THEN 1 ELSE n - 3

\* C13: when send_raw has returned Ok, the last thing done to the serial
\* connection is a flush: no byte is written after the last flush.
C13_FinalFlush ==
    pc = "done" => (Len(serial) > 0 /\ serial[Len(serial)] = Flush)

\* 9 samples: a pad byte, one data byte, one sample left over, the final flush
C13_Witness ==
    /\ pc = "done"
    /\ Len(emitted) = 9
    /\ serial[Len(serial)] = Flush
    /\ serial[Len(serial) - 1].op = "data"

\* C15: every flush of a completed row comes right after that row's pad byte.
C15_FlushAfterPad ==
    \A i \in RESET_LEN + 2 .. Len(serial) - 1 :
        serial[i].op = "flush" => serial[i - 1].op = "pad"

\* C16: for the 64x64 checkerboard every data byte is 0x55 or 0xAA, by the
\* parity of the source column its first sample comes from.
C16_Checkerboard ==
    (dims = <<DIM, DIM>> /\ orig.len = DIM * DIM /\ ~orig.bits /\ orig.pat \in Checkers)
        => \A k \in Checked(Len(DataBytes)) .. Len(DataBytes) :
              LET col == emitted[8 * (k - 1) + 1] % DIM
              IN  DataBytes[k].byte =
                      (IF (col % 2 = 0) <=> (orig.pat = CHECKER_0) THEN 85 ELSE 170)

\* the first column has been sent as 8 bytes 0x55, the second has begun with 0xAA
C16_Witness ==
    /\ dims = <<DIM, DIM>>
    /\ orig = [len |-> DIM * DIM, pat |-> CHECKER_0, bits |-> FALSE]
    /\ pc = "loop"
    /\ Len(DataBytes) = 9
    /\ \A k \in 1 .. 8 : DataBytes[k].byte = 85
    /\ DataBytes[9].byte = 170

\* C17: after a successful send_raw over n samples, n not a multiple of 8,
\* exactly n / 8 (rounded down) data bytes have been written; the bits of the
\* last n % 8 samples are still in the local byte, and every other byte after
\* the preamble is a pad byte of value 0, one before each row begun.
C17_PartialByteDropped ==
    (pc = "done" /\ Len(emitted) % 8 # 0)
        => /\ Len(DataBytes) = Len(emitted) \div 8
           /\ sr.index_within_byte = Len(emitted) % 8
           /\ Len(Bytes) = RESET_LEN + Len(DataBytes) + Pads
           /\ Pads = 1 + (Len(emitted) \div 64)

\* 81 samples: 10 data bytes, the 81st sample is dropped
C17_Witness ==
    /\ pc = "done"
    /\ Len(emitted) = 81
    /\ Len(DataBytes) = 10
    /\ sr.index_within_byte = 1

\* C18 (as stated): when n is not a multiple of 64, only the data bytes of the
\* complete rows are written (n being a whole buffer of width * height samples).
C18_PartialRowDropped ==
    (pc = "done" /\ Len(emitted) % 64 # 0 /\ Len(emitted) = rot.w * rot.h)
        => Len(DataBytes) = 8 * (Len(emitted) \div 64)

\* C18 (amended): when n is not a multiple of 64, the bytes after those of the
\* complete rows are the pad byte of the row begun and then one data byte for
\* each complete group of 8 samples of that row.
C18_PartialRowBytesWritten ==
    (pc = "done" /\ Len(emitted) % 64 # 0)
        => LET rows == Len(emitted) \div 64
               tail == SubSeq(AfterReset, 9 * rows + 1, Len(AfterReset))
           IN  /\ Len(tail) = 1 + ((Len(emitted) % 64) \div 8)
               /\ tail[1] = Wr("pad", 0)
               /\ \A i \in 2 .. Len(tail) : tail[i].op = "data"
               /\ \A i \in 1 .. 9 * rows :
                      AfterReset[i].op = (IF i % 9 = 1 THEN "pad" ELSE "data")

\* 81 samples: one complete row, then a pad byte and two data bytes
C18_Witness ==
    /\ pc = "done"
    /\ Len(emitted) = 81
    /\ Len(AfterReset) = 12
    /\ AfterReset[10].op = "pad"
    /\ AfterReset[11].op = "data"
    /\ AfterReset[12].op = "data"

\* C19: rows_since_sleep stays within 0..ROWS_BETWEEN_SLEEPS, and a sleep
\* follows the flush of completed row r exactly when
\* (r - 1) % (ROWS_BETWEEN_SLEEPS + 1) = 0: after r rows there have been as
\* many sleeps as there are such rows among 1..r, each right after its flush.
C19_SleepEveryThirdRow ==
    /\ sr.rows_since_sleep \in 0 .. ROWS_BETWEEN_SLEEPS
    /\ RowFlushes >= 0
          => Sleeps = (RowFlushes + ROWS_BETWEEN_SLEEPS) \div (ROWS_BETWEEN_SLEEPS + 1)
    /\ \A i \in Recent(Len(serial)) .. Len(serial) :
          serial[i] = Sleep
              => /\ i > 1
                 /\ serial[i - 1] = Flush
                 /\ (CountOp("flush", i) - 2) % (ROWS_BETWEEN_SLEEPS + 1) = 0

\* of a 64x64 frame rows 1..4 are complete, with the sleeps after rows 1 and 4
C19_Witness ==
    /\ dims = <<DIM, DIM>>
    /\ pc = "loop"
    /\ RowFlushes = 4
    /\ Sleeps = 2
    /\ sr.rows_since_sleep = 0
    /\ Len(DataBytes) = 32

----------------------------------------------------------------------------
(* Claims about normal_mode *)

\* C4: at most one request is in flight; the update handler thread takes a
\* request only when it is back at the receive, and a handler's send
\* completes only in the step in which the update handler thread takes it.
C4_OneInFlight ==
    /\ [](/\ Cardinality(pending) <= 1
          /\ wpc \in Busy <=> pending = {wreq})
    /\ [][\A h \in Handlers :
             (hpc[h] = "send" /\ hpc'[h] # "send")
                 => (wpc = "recv" /\ wpc' = "load_map" /\ wreq' = hreq[h])]_vars

C4_Witness ==
    /\ wpc = "send_map"
    /\ pending = {wreq}
    /\ \E h \in Handlers : hpc[h] = "send" /\ hreq[h] # wreq

\* C5 (as stated): no handler is ever held in its channel send while the
\* update handler thread is transmitting.
C5_NeverWaitsForTransmission ==
    \A h \in Handlers : ~(hpc[h] = "send" /\ wpc = "send_map")

\* C5 (amended): a handler is never held on behalf of its own request: once
\* the update handler thread has taken the request the handler's send has
\* returned and its reply can go out whatever the update handler thread does.
C5_NeverWaitsForOwnTransmission ==
    \A h \in Handlers :
        /\ hpc[h] = "send" => hreq[h] \notin pending
        /\ hpc[h] = "reply" => ENABLED reply(h)

C5_Witness ==
    \E h \in Handlers :
        /\ hpc[h] = "idle"
        /\ wpc = "send_map"
        /\ wreq = hreq[h]
        /\ \E g \in Handlers : hpc[g] = "send"

\* C12: once load_map or send_map has failed in the update handler thread the
\* process is over: no handler accepts a request or goes on.
C12_WorkerFailureEndsProcess ==
    [][(wpc \in Dead) => (hpc' = hpc /\ nposts' = nposts)]_vars

\* C14: send_map runs only for a request whose load_map has returned Ok, the
\* serial connection is written only then, and a request whose load_map
\* failed has nothing written for it.
C14_SendOnlyAfterLoad ==
    /\ [](wpc = "send_map" => loadst = "ok")
    /\ [](loadst = "failed"
            => /\ wpc = "load_map_failed"
               /\ \A i \in 1 .. Len(serial) : serial[i].byte # wreq)
    /\ [][serial' # serial
            => /\ wpc = "send_map"
               /\ loadst = "ok"
               /\ serial' = Append(serial, serial'[Len(serial')])
               /\ serial'[Len(serial')].byte = wreq]_vars

\* the second request's load_map has failed after the first request's frame
C14_Witness ==
    /\ wpc = "load_map_failed"
    /\ loadst = "failed"
    /\ wreq = 2
    /\ serial = <<Wr("frame", 1)>>

----------------------------------------------------------------------------
(* Claims about touhou_mode *)

\* C20: the frame numbers passed to send_png_g are >= 1 and strictly
\* increasing, a send starts only when the one before has returned Ok, and
\* nothing is sent after a send has failed.
C20_FramesIncrease ==
    /\ [](\A i \in 1 .. Len(sent) :
             /\ sent[i] >= 1
             /\ i > 1 => sent[i - 1] < sent[i])
    /\ [][sent' # sent
            => /\ tpc = "loop"
               /\ Len(sent) > 0 => last_frame_sent = sent[Len(sent)]]_vars
    /\ [][tpc = "failed" => (sent' = sent /\ tpc' = "failed")]_vars

\* three frames were passed, one frame number was skipped, the third send failed
C20_Witness ==
    /\ Len(sent) = 3
    /\ sent[1] = 1
    /\ sent[2] > sent[1] + 1
    /\ tpc = "failed"

====
